---- MODULE Spec2Model ----
(***************************************************************************)
(* Model of the ulauncher-snippets extension: the event handlers of        *)
(* main.py (ItemEnterEventLister, KeywordQueryEventListener,               *)
(* SystemExitEventListener), the result-item builders of src/items.py and  *)
(* the Snippet class / get_snippets of src/functions.py.                   *)
(*                                                                         *)
(* Strings are sequences of one-character strings so that strip(),         *)
(* expanduser() and template rendering are computed, not assumed.          *)
(* A missing dictionary key / an attribute that holds None is NoKey.       *)
(***************************************************************************)
EXTENDS Integers, Sequences, FiniteSets, TLC

VARIABLES
    state,        \* extension.state: "select" | "var"
    snippet,      \* extension.snippet: attribute unset, None, or a Snippet object
    variable,     \* extension.variable: attribute unset, None, or the key of a dict of snippet.variables
    suggestions,  \* the Snippet objects the last get_snippets call built; a select event carries one
    ranked,       \* the file list the last fuzzyfinder call returned
    fs,           \* the file system: path -> content, for the paths that exist
    response,     \* what the last handler returned to the host (or the fault it raised)
    effect,       \* what the last handler did: event, render invoked, clipboard / file written
    typed,        \* raw text of the last keyword query since the last item-enter event, or NoKey
    session,      \* history of the current session: prompts shown, submissions made
    released,     \* the Snippet object the last reset let go of, until the next selection
    DEFAULT_FILTERS, \* jinja2.environment.DEFAULT_FILTERS: filter name -> where it was loaded from
    call          \* the last direct call of a function of functions.py / filters.py: arguments and result

vars == <<state, snippet, variable, suggestions, ranked, fs,
          response, effect, typed, session, released, DEFAULT_FILTERS, call>>

----------------------------------------------------------------------------
(* Bounds *)

\* get_score returns a score in 0..MaxScore
MaxScore == 1
\* the states of the random module's generator are 0..MaxSeed
MaxSeed == 3
\* the texts given to camelcase and pascalcase have at most MaxTextLen characters
MaxTextLen == 4
\* item-enter events without a type accepted per session
MaxSubmits == 3

----------------------------------------------------------------------------
(* Strings *)

NoKey == <<"<none>">>
\* an attribute that was never assigned
Unset == <<"<unset>">>

\* str.strip(): removes leading and trailing whitespace
RECURSIVE lstrip(_)
lstrip(s) == IF s # <<>> /\ Head(s) = " " THEN lstrip(Tail(s)) ELSE s

RECURSIVE rstrip(_)
rstrip(s) ==
    IF s # <<>> /\ s[Len(s)] = " " THEN rstrip(SubSeq(s, 1, Len(s) - 1)) ELSE s

strip(s) == rstrip(lstrip(s))

\* os.path.expanduser: a leading "~" becomes the home directory
Home == <<"h", "/">>
expanduser(p) == IF p # <<>> /\ Head(p) = "~" THEN Home \o Tail(p) ELSE p

\* truthiness of a str-or-None value
Truthy(v) == v # NoKey /\ v # <<>>

\* the cased characters the model uses: <<lower case, upper case>>
Cased == { <<"a", "A">>, <<"b", "B">>, <<"l", "L">> }

\* str.lower() / str.upper(): cased characters are mapped, every other one is kept
lower_char(c) ==
    IF \E p \in Cased : p[2] = c THEN (CHOOSE p \in Cased : p[2] = c)[1] ELSE c
upper_char(c) ==
    IF \E p \in Cased : p[1] = c THEN (CHOOSE p \in Cased : p[1] = c)[2] ELSE c
lower(s) == [k \in 1..Len(s) |-> lower_char(s[k])]
upper(s) == [k \in 1..Len(s) |-> upper_char(s[k])]

----------------------------------------------------------------------------
(* The snippet library under preferences["snippets_path"] *)

Lit(c) == [lit |-> c]
Ref(id) == [ref |-> id]
Var(id, label, default) == [id |-> id, label |-> label, default |-> default, value |-> NoKey]

\* what frontmatter.load(path) yields for each *.j2 file; parses = FALSE: load raises;
\* file_path_template = <<>>: the header has none
Library ==
    [ a |-> [parses |-> TRUE,
             vars |-> << Var(<<"n">>, <<"N">>, NoKey), Var(<<"o">>, <<"O">>, <<"H", " ">>) >>,
             content |-> << Ref(<<"n">>), Lit("+"), Ref(<<"o">>) >>,
             markdown |-> TRUE, file_path_template |-> <<>>, file_overwrite |-> FALSE],
      b |-> [parses |-> FALSE,
             vars |-> << >>, content |-> << >>,
             markdown |-> FALSE, file_path_template |-> <<>>, file_overwrite |-> FALSE],
      c |-> [parses |-> TRUE,
             vars |-> << Var(<<"t">>, <<"T">>, <<"d">>) >>,
             content |-> << Lit("c"), Ref(<<"t">>) >>,
             markdown |-> TRUE,
             file_path_template |-> << Lit("~"), Lit("f") >>, file_overwrite |-> TRUE],
      d |-> [parses |-> TRUE,
             vars |-> << >>, content |-> << Lit("m") >>,
             markdown |-> FALSE,
             file_path_template |-> << Lit("~"), Lit("f") >>, file_overwrite |-> FALSE] ]

\* glob.glob(search_pattern, recursive=True)
glob == << "a", "b", "c", "d" >>

Files == { glob[i] : i \in 1..Len(glob) }

\* the texts a keyword query can carry (event.get_argument() or str())
Inputs == { <<>>, <<" ">>, <<"-">>, <<" ", "-">>, <<"x">>, <<"y", " ">> }

CopyModes == { "gtk", "xsel", "wl" }

----------------------------------------------------------------------------
(* class Snippet *)

\* a Snippet attribute or None
NoneObj == [kind |-> "none"]
UnsetObj == [kind |-> "unset"]
IsObj(s) == s.kind = "obj"

\* faulty variant: Snippet objects are cached by path instead of parsed anew
Snippet__init__cached(path) ==
    IF IsObj(released) /\ released.path = path
    THEN released
    ELSE [kind |-> "obj", path |-> path, variables |-> Library[path].vars]

Snippet__init__(path) ==
    [kind |-> "obj", path |-> path, variables |-> Library[path].vars]

\* position of the dict with key id in snippet.variables, 0 when there is none
IndexOf(s, id) ==
    IF \E i \in 1..Len(s.variables) : s.variables[i].id = id
    THEN CHOOSE i \in 1..Len(s.variables) : s.variables[i].id = id
    ELSE 0

\* faulty variant: the dict is searched from its end
next_variable_reversed(s) ==
    IF \E i \in 1..Len(s.variables) : ~Truthy(s.variables[i].value)
    THEN LET i == CHOOSE i \in 1..Len(s.variables) :
                      /\ ~Truthy(s.variables[i].value)
                      /\ \A j \in (i + 1)..Len(s.variables) : Truthy(s.variables[j].value)
         IN s.variables[i].id
    ELSE NoKey

\* faulty variant: a variable counts as resolved once its "value" key exists
next_variable_any_value(s) ==
    IF \E i \in 1..Len(s.variables) : s.variables[i].value = NoKey
    THEN LET i == CHOOSE i \in 1..Len(s.variables) :
                      /\ s.variables[i].value = NoKey
                      /\ \A j \in 1..(i - 1) : s.variables[j].value # NoKey
         IN s.variables[i].id
    ELSE NoKey

next_variable(s) ==
    IF \E i \in 1..Len(s.variables) : ~Truthy(s.variables[i].value)
    THEN LET i == CHOOSE i \in 1..Len(s.variables) :
                      /\ ~Truthy(s.variables[i].value)
                      /\ \A j \in 1..(i - 1) : Truthy(s.variables[j].value)
         IN s.variables[i].id
    ELSE NoKey

\* faulty variant: the declared default is ignored
get_variable_no_default(s, name) ==
    LET i == IndexOf(s, name) IN
    IF i = 0 THEN [exc |-> "AttributeError", value |-> <<>>]
    ELSE LET var == s.variables[i]
         IN [exc |-> "", value |-> IF var.value # NoKey THEN var.value ELSE <<>>]

\* var.get("value", default) with default = var.get("default", "");
\* an undeclared name makes self.variables.get(name) None: AttributeError
get_variable(s, name) ==
    LET i == IndexOf(s, name) IN
    IF i = 0 THEN [exc |-> "AttributeError", value |-> <<>>]
    ELSE LET var == s.variables[i]
             default == IF var.default # NoKey THEN var.default ELSE <<>>
         IN [exc |-> "", value |-> IF var.value # NoKey THEN var.value ELSE default]

\* an exception raised (exc # "") with str(e), or a returned value
Raise(exc, msg) == [exc |-> exc, msg |-> msg]
NoExc == Raise("", <<>>)

\* Template(template_str).render(vars=self.get_variable, ...): literals are copied,
\* {{ vars("id") }} is replaced by get_variable("id")
RECURSIVE _render(_, _)
_render(s, template_str) ==
    IF template_str = <<>> THEN [exc |-> "", text |-> <<>>]
    ELSE LET tok == Head(template_str)
             rest == _render(s, Tail(template_str))
         IN IF "lit" \in DOMAIN tok
            THEN [exc |-> rest.exc, text |-> <<tok.lit>> \o rest.text]
            ELSE LET v == get_variable(s, tok.ref) IN
                 IF v.exc # "" THEN [exc |-> v.exc, text |-> <<>>]
                 ELSE [exc |-> rest.exc, text |-> v.value \o rest.text]

\* markdown.markdown(text, ..., output_format="html5")
markdown(text) == <<"<p>">> \o text \o <<"</p>">>

\* has_markdown: whether "import markdown" succeeds
render(s, has_markdown) ==
    LET rendered_snippet == _render(s, Library[s.path].content) IN
    IF rendered_snippet.exc # ""
    THEN [err |-> Raise(rendered_snippet.exc, <<rendered_snippet.exc>>),
          mime_type |-> "", content |-> <<>>]
    ELSE IF Library[s.path].markdown
    THEN IF ~has_markdown
         THEN [err |-> Raise("Exception", <<"Missing python-markdown package">>),
               mime_type |-> "", content |-> <<>>]
         ELSE [err |-> NoExc, mime_type |-> "text/html",
               content |-> markdown(rendered_snippet.text)]
    ELSE [err |-> NoExc, mime_type |-> "text/plain", content |-> rendered_snippet.text]

\* os.path.exists(file_path)
exists(files, file_path) == file_path \in DOMAIN files

\* open(file_path, "w+").write(content)
write(files, file_path, content) ==
    [p \in DOMAIN files \cup {file_path} |-> IF p = file_path THEN content ELSE files[p]]

\* faulty variant: the file is opened for writing before its existence is tested
render_to_file_path_clobber(s, files, has_markdown) ==
    LET p == _render(s, Library[s.path].file_path_template)
        file_path == expanduser(p.text)
        r == render(s, has_markdown)
    IN IF p.exc # "" THEN [err |-> Raise(p.exc, <<p.exc>>), file_path |-> NoKey, fs |-> files]
       ELSE IF r.err.exc # "" THEN [err |-> r.err, file_path |-> NoKey, fs |-> files]
       ELSE IF ~exists(files, file_path)
       THEN [err |-> NoExc, file_path |-> file_path,
             fs |-> write(files, file_path, r.content)]
       ELSE [err |-> Raise("FileExistsError", file_path), file_path |-> NoKey,
             fs |-> write(files, file_path, r.content)]

\* returns the path, the file system afterwards, or the exception raised
render_to_file_path(s, files, has_markdown) ==
    LET p == _render(s, Library[s.path].file_path_template) IN
    IF p.exc # "" THEN [err |-> Raise(p.exc, <<p.exc>>), file_path |-> NoKey, fs |-> files]
    ELSE LET file_path == expanduser(p.text)
             r == render(s, has_markdown)
         IN IF r.err.exc # "" THEN [err |-> r.err, file_path |-> NoKey, fs |-> files]
            ELSE IF ~exists(files, file_path)
            THEN [err |-> NoExc, file_path |-> file_path,
                  fs |-> write(files, file_path, r.content)]
            ELSE [err |-> Raise("FileExistsError", file_path), file_path |-> NoKey,
                  fs |-> files]

----------------------------------------------------------------------------
(* fuzzyfinder / get_snippets *)

\* the score get_score(search, name) gives each file's name: any value in Scores
Scores == 0..MaxScore

\* sorted(scores, key=lambda score: score[0], reverse=True): stable, descending.
\* insert puts x behind every element that does not score lower than x
RECURSIVE insert(_, _, _)
insert(sorted, x, score) ==
    IF sorted = <<>> THEN <<x>>
    ELSE IF score[Head(sorted)] >= score[x]
         THEN <<Head(sorted)>> \o insert(Tail(sorted), x, score)
         ELSE <<x>> \o sorted

RECURSIVE sorted_desc(_, _)
sorted_desc(items, score) ==
    IF items = <<>> THEN <<>>
    ELSE insert(sorted_desc(SubSeq(items, 1, Len(items) - 1), score),
                items[Len(items)], score)

\* faulty variant: items that score 0 are left out of the result
fuzzyfinder_drop(score, items) ==
    SelectSeq(sorted_desc(items, score), LAMBDA i : score[i] > 0)

\* score: what get_score(search, get_name_from_path(i)) returns for each item i
fuzzyfinder(score, items) == sorted_desc(items, score)

\* faulty variant: the first file that fails to parse ends the loop
RECURSIVE parse_all_break(_)
parse_all_break(files) ==
    IF files = <<>> THEN <<>>
    ELSE IF Library[Head(files)].parses
         THEN <<Snippet__init__(Head(files))>> \o parse_all_break(Tail(files))
         ELSE <<>>

\* for f in suggestions: try: snippets.append(Snippet(f)) except: continue
RECURSIVE parse_all(_)
parse_all(files) ==
    IF files = <<>> THEN <<>>
    ELSE IF Library[Head(files)].parses
         THEN <<Snippet__init__(Head(files))>> \o parse_all(Tail(files))
         ELSE parse_all(Tail(files))

get_snippets(score) == parse_all(fuzzyfinder(score, glob))

----------------------------------------------------------------------------
(* src/items.py *)

no_input_item == << [name |-> "No snippet", on_enter |-> "DoNothingAction"] >>

\* faulty variant: the value is stored as typed, without value.strip()
set_value_unstripped(var, value) ==
    IF value = <<"-">>
    THEN [var EXCEPT !.value = IF var.default # NoKey THEN var.default ELSE <<>>]
    ELSE [var EXCEPT !.value = value]

\* the variable dict after show_var_input(snippet, variable, value)
set_value(var, value) ==
    LET v == strip(value) IN
    IF v = <<"-">>
    THEN [var EXCEPT !.value = IF var.default # NoKey THEN var.default ELSE <<>>]
    ELSE [var EXCEPT !.value = v]

\* faulty variant: the value is stored in the snippet's first variable dict
show_var_input_first(s, id, value) ==
    [s EXCEPT !.variables[1] = set_value(@, value)]

\* faulty variant: the value is stored in every variable dict of the snippet
show_var_input_all(s, id, value) ==
    [s EXCEPT !.variables = [k \in 1..Len(s.variables) |-> set_value(s.variables[k], value)]]

\* the snippet after show_var_input stored the value in its variable dict
show_var_input(s, id, value) ==
    [s EXCEPT !.variables[IndexOf(s, id)] = set_value(@, value)]

\* the result items show_var_input returns
var_input_items(s, id) ==
    << [name |-> s.variables[IndexOf(s, id)].label, on_enter |-> "submit"],
       [name |-> "Cancel", on_enter |-> "cancel"] >>

show_suggestion_items(sugs) ==
    IF Len(sugs) = 0 THEN no_input_item
    ELSE [i \in 1..Len(sugs) |-> [name |-> sugs[i].path, on_enter |-> <<"select", i>>]]

----------------------------------------------------------------------------
(* main.py *)

\* the attributes an Extension object has; snippet and variable appear once assigned
ExtensionAttributes == { "preferences", "state", "subscribe", "run" }

\* the actions a handler returns, and a fault it lets escape to the host
Action(kind, text, items) == [kind |-> kind, text |-> text, items |-> items]
Fault(exc) == Action("fault", <<exc>>, <<>>)
SetUserQueryAction(query) == Action("SetUserQueryAction", query, <<>>)
HideWindowAction == Action("HideWindowAction", <<>>, <<>>)
CopyToClipboardAction(text) == Action("CopyToClipboardAction", text, <<>>)
RenderResultListAction(items) == Action("RenderResultListAction", <<>>, items)
\* ActionList([SetUserQueryAction(keyword + " "), RenderResultListAction(items)])
PromptActionList(items) == Action("ActionList", <<"k", " ">>, items)

\* RenderResultListAction([ExtensionResultItem(name=str(e), on_enter=DoNothingAction())])
ErrorResult(err) ==
    RenderResultListAction(<< [name |-> err.msg, on_enter |-> "DoNothingAction"] >>)

\* event: the handler's event; rendered: the try block of lines 66-86 was entered;
\* error: the exception its except clause caught; clipboard: what an in-process
\* clipboard command was given; file: the path render_to_file_path returned
Effect(event, rendered, error, clipboard, file) ==
    [event |-> event, rendered |-> rendered, error |-> error,
     clipboard |-> clipboard, file |-> file]

\* def _notify(self, extension, snippet, mimetype): args are the arguments of the call;
\* notify_ok: whether notification.show() succeeds
_notify(args, notify_ok) ==
    IF Len(args) # 3
    THEN Raise("TypeError", <<"_notify() missing 1 required positional argument">>)
    ELSE IF notify_ok THEN NoExc ELSE Raise("GLib.Error", <<"notification failed">>)

\* copy_to_clipboard_xsel / copy_to_clipboard_wl: subprocess.run(..., check=True)
copy_to_clipboard(clip_ok) ==
    IF clip_ok THEN NoExc ELSE Raise("CalledProcessError", <<"clipboard command failed">>)

\* the environment of one render and delivery: the preference
\* extension.preferences["snippets_copy_mode"], whether "import markdown" succeeds,
\* whether the clipboard command and the notification succeed
Envs == [copy_mode : CopyModes, has_markdown : BOOLEAN, clip_ok : BOOLEAN,
         notify_ok : BOOLEAN]

\* lines 66-91 of on_event: the try block and its except clause
complete(s, event, env) ==
    IF Library[s.path].file_path_template # <<>>
    THEN LET r == render_to_file_path(s, fs, env.has_markdown) IN
         IF r.err.exc # ""
         THEN [response |-> ErrorResult(r.err), fs |-> r.fs,
               effect |-> Effect(event, TRUE, r.err, NoKey, NoKey)]
         ELSE LET n == _notify(<<"extension", r.file_path>>, env.notify_ok) IN
              [response |-> IF n.exc # "" THEN ErrorResult(n) ELSE HideWindowAction,
               fs |-> r.fs,
               effect |-> Effect(event, TRUE, n, NoKey, r.file_path)]
    ELSE LET r == render(s, env.has_markdown) IN
         IF r.err.exc # ""
         THEN [response |-> ErrorResult(r.err), fs |-> fs,
               effect |-> Effect(event, TRUE, r.err, NoKey, NoKey)]
         ELSE IF env.copy_mode \in {"xsel", "wl"}
         THEN LET c == copy_to_clipboard(env.clip_ok) IN
              IF c.exc # ""
              THEN [response |-> ErrorResult(c), fs |-> fs,
                    effect |-> Effect(event, TRUE, c, NoKey, NoKey)]
              ELSE LET n == _notify(<<"extension", r.content, r.mime_type>>, env.notify_ok) IN
                   [response |-> IF n.exc # "" THEN ErrorResult(n) ELSE HideWindowAction,
                    fs |-> fs,
                    effect |-> Effect(event, TRUE, n, <<r.mime_type>> \o r.content, NoKey)]
         ELSE LET n == _notify(<<"extension", r.content, r.mime_type>>, env.notify_ok) IN
              [response |-> IF n.exc # "" THEN ErrorResult(n)
                            ELSE CopyToClipboardAction(r.content),
               fs |-> fs,
               effect |-> Effect(event, TRUE, n, NoKey, NoKey)]

\* faulty variant: reset forgets self.snippet = None
reset_keeps_snippet ==
    /\ snippet' = snippet
    /\ variable' = NoKey
    /\ state' = "select"

\* faulty variant: reset forgets self.variable = None
reset_keeps_variable ==
    /\ snippet' = NoneObj
    /\ variable' = variable
    /\ state' = "select"

\* SnippetsExtension.reset
reset ==
    /\ snippet' = NoneObj
    /\ variable' = NoKey
    /\ state' = "select"

\* the object extension.snippet referred to when obj replaced it
release(obj) == IF IsObj(obj) THEN obj ELSE released

\* the process runs until the host sends SystemExitEvent
Running == response.kind # "exit"

\* truthiness of a variable dict: a dict without keys is falsy
DictTruthy(var) == var.label # NoKey \/ var.default # NoKey \/ var.value # NoKey

\* path: the selected file; again: the session before this one used the same file and
\* left a value in it; prompts: the variables prompted for; nsub: item-enter events
\* without a type; dashFree / nonEmpty: each of them followed a keyword query whose
\* stripped text was not "-" / was not empty
EmptySession ==
    [path |-> NoKey, again |-> FALSE, prompts |-> <<>>, nsub |-> 0,
     dashFree |-> TRUE, nonEmpty |-> TRUE]

HasValue(obj) == \E j \in 1..Len(obj.variables) : Truthy(obj.variables[j].value)

NewSession(s) ==
    [EmptySession EXCEPT
        !.path = <<s.path>>,
        !.again = IsObj(released) /\ released.path = s.path /\ HasValue(released)]


\* lines 57-93 of ItemEnterEventLister.on_event, entered with extension.snippet = s and
\* extension.state = st; sess is the session history up to this event
advance(s, st, event, sess, env) ==
    LET next_var == next_variable(s)
        prompt == /\ st = "var"
                  /\ next_var # NoKey
                  /\ DictTruthy(s.variables[IndexOf(s, next_var)])
    IN
    IF prompt
    THEN LET var == s.variables[IndexOf(s, next_var)]
             default == IF var.default # NoKey THEN var.default ELSE <<>>
         IN /\ state' = st
            /\ variable' = next_var
            /\ snippet' = show_var_input(s, next_var, default)
            /\ response' = PromptActionList(var_input_items(s, next_var))
            /\ effect' = Effect(event, FALSE, NoExc, NoKey, NoKey)
            /\ session' = [sess EXCEPT !.prompts = Append(@, next_var)]
            /\ released' = NoneObj
            /\ fs' = fs
    ELSE LET c == complete(s, event, env) IN
            /\ reset
            /\ response' = c.response
            /\ effect' = c.effect
            /\ session' = sess
            /\ released' = s
            /\ fs' = c.fs

\* the data an ItemEnterEvent carries: {"type": "select", "snippet": suggestions[i]}
\* from a suggestion item, {"type": "cancel"} from the Cancel item, {} from the
\* item show_var_input offers for the typed text
EventData ==
    { [type |-> "select", i |-> i] : i \in 1..Len(suggestions) }
        \cup { [type |-> "cancel", i |-> 0], [type |-> "submit", i |-> 0] }

\* ItemEnterEventLister.on_event
ItemEnterEvent ==
    /\ Running
    /\ \E data \in EventData :
        IF data.type = "cancel"
        THEN /\ reset
             /\ response' = SetUserQueryAction(<<>>)
             /\ effect' = Effect("cancel", FALSE, NoExc, NoKey, NoKey)
             /\ released' = release(snippet)
             /\ suggestions' = <<>>
             /\ ranked' = <<>>
             /\ UNCHANGED <<fs, session>>
        ELSE LET select == data.type = "select"
                 s == IF select THEN suggestions[data.i] ELSE snippet
                 st == IF select THEN "var" ELSE state
                 sess == IF select THEN NewSession(s)
                         ELSE [session EXCEPT
                                 !.nsub = @ + 1,
                                 !.dashFree = @ /\ typed # NoKey /\ strip(typed) # <<"-">>,
                                 !.nonEmpty = @ /\ typed # NoKey /\ strip(typed) # <<>>]
             IN IF ~IsObj(s)
                THEN \* extension.snippet is None or was never assigned: AttributeError
                     /\ response' = Fault("AttributeError")
                     /\ effect' = Effect(data.type, FALSE, NoExc, NoKey, NoKey)
                     /\ UNCHANGED <<state, snippet, variable, suggestions, ranked, fs,
                                    session, released>>
                ELSE /\ sess.nsub <= MaxSubmits
                     /\ \E env \in Envs : advance(s, st, data.type, sess, env)
                     /\ suggestions' = <<>>
                     /\ ranked' = <<>>
    /\ typed' = NoKey
    \* the snippets directory of the Library holds no filters.py: line 131 is not reached
    /\ UNCHANGED <<DEFAULT_FILTERS, call>>

\* KeywordQueryEventListener.on_event
KeywordQueryEvent ==
    /\ Running
    /\ \/ /\ state = "select"
          /\ \E score \in [Files -> Scores] :
                 LET snippets == get_snippets(score)
                     items == show_suggestion_items(snippets)
                 IN /\ ranked' = fuzzyfinder(score, glob)
                    /\ suggestions' = snippets
                    /\ response' = IF "preferneces" \in ExtensionAttributes
                                   THEN RenderResultListAction(items)
                                   ELSE Fault("AttributeError")
          /\ effect' = Effect("query", FALSE, NoExc, NoKey, NoKey)
          /\ typed' = NoKey
          /\ session' = EmptySession
          /\ UNCHANGED <<state, snippet, variable, fs, released>>
       \/ /\ state = "var"
          /\ \E search \in Inputs :
                 /\ snippet' = show_var_input(snippet, variable, search)
                 /\ response' = RenderResultListAction(var_input_items(snippet, variable))
                 /\ typed' = search
          /\ effect' = Effect("query", FALSE, NoExc, NoKey, NoKey)
          /\ UNCHANGED <<state, variable, suggestions, ranked, fs, session,
                         released>>
    /\ UNCHANGED <<DEFAULT_FILTERS, call>>

\* SystemExitEventListener.on_event
SystemExitEvent ==
    /\ Running
    /\ reset
    /\ response' = Action("exit", <<>>, <<>>)
    /\ effect' = Effect("exit", FALSE, NoExc, NoKey, NoKey)
    /\ released' = release(snippet)
    /\ UNCHANGED <<suggestions, ranked, fs, typed, session, DEFAULT_FILTERS, call>>

----------------------------------------------------------------------------
(* jinja2 filter table *)

\* functions.py 29-33: the filters of src/filters.py (and urldecode) are registered in
\* jinja2.environment.DEFAULT_FILTERS when the module is imported
BuiltinFilters ==
    [n \in {"camelcase", "pascalcase", "kebabcase", "snakecase", "urldecode"}
        |-> "functions.py"]

\* the snippet directories that hold a filters.py, with the names its "filters"
\* dictionary defines; r0 holds none. r2 redefines a filter of r1 and a built-in one
FilterFiles ==
    [ r1 |-> {"replace_with_symbol"},
      r2 |-> {"replace_with_symbol", "camelcase"},
      r3 |-> {"shout"} ]
Roots == {"r0"} \cup DOMAIN FilterFiles

\* import_file("filters", self.filters_path).filters: name -> the file that defines it
import_filters(root) == [n \in FilterFiles[root] |-> root]

\* {**d1, **d2}
merge(d1, d2) ==
    [n \in DOMAIN d1 \cup DOMAIN d2 |-> IF n \in DOMAIN d2 THEN d2[n] ELSE d1[n]]

\* the filter a template may apply: {{ "..." | name }}
FilterNames == {"camelcase", "kebabcase", "replace_with_symbol", "shout"}

\* Snippet._render for a snippet of root_path root whose template applies the filter
\* uses: lines 127-133 load the root's filters into the process-wide table, the
\* template is created from that table and fails on a filter the table lacks
Call__render ==
    /\ \E root \in Roots, uses \in FilterNames :
         LET filters == IF root \in DOMAIN FilterFiles
                        THEN import_filters(root) ELSE <<>>
             table == IF root \in DOMAIN FilterFiles
                      THEN merge(DEFAULT_FILTERS, filters) ELSE DEFAULT_FILTERS
         IN /\ DEFAULT_FILTERS' = table
            /\ call' = [op |-> "_render", root |-> root, uses |-> uses,
                        filters |-> table,
                        exc |-> IF uses \in DOMAIN table THEN ""
                                ELSE "TemplateAssertionError"]
    /\ UNCHANGED <<state, snippet, variable, suggestions, ranked, fs, response,
                   effect, typed, session, released>>

----------------------------------------------------------------------------
(* Direct calls of the functions of src/functions.py and src/filters.py *)

NoCall == [op |-> "none"]

\* candidate names (get_name_from_path of the globbed files) and search texts
Names == { <<"b", "i">>, <<"A", "l">>, <<"b", "a", "l">> }
CandidateLists ==
    { <<>>,
      << <<"A", "l">> >>,
      << <<"b", "a", "l">>, <<"b", "i">> >>,
      << <<"b", "i">>, <<"A", "l">>, <<"b", "a", "l">> >> }
Searches == { <<>>, <<"a", "l">>, <<"L">> }

\* fuzzyfinder(search, items, root_path)
Call_fuzzyfinder ==
    /\ \E search \in Searches, items \in CandidateLists, score \in [Names -> Scores] :
           call' = [op |-> "fuzzyfinder", search |-> search, items |-> items,
                    score |-> score, out |-> fuzzyfinder(score, items)]
    /\ UNCHANGED <<state, snippet, variable, suggestions, ranked, fs, response,
                   effect, typed, session, released, DEFAULT_FILTERS>>

\* what a variable's "value" key may hold when get_variable is called: the key is
\* missing, or it holds a text (the empty one included)
Values == { NoKey } \cup { strip(i) : i \in Inputs }

\* Snippet(path).get_variable(name), after variables[...]["value"] were assigned as in
\* the doctest of class Snippet
Call_get_variable ==
    /\ \E path \in {"a", "c"} :
         LET fresh == Snippet__init__(path) IN
         \E values \in [1..Len(fresh.variables) -> Values] :
         \E j \in 1..Len(fresh.variables) :
            LET s == [fresh EXCEPT !.variables =
                        [k \in 1..Len(fresh.variables) |->
                            [fresh.variables[k] EXCEPT !.value = values[k]]]]
                name == s.variables[j].id
            IN call' = [op |-> "get_variable", s |-> s, name |-> name,
                        out |-> get_variable(s, name)]
    /\ UNCHANGED <<state, snippet, variable, suggestions, ranked, fs, response,
                   effect, typed, session, released, DEFAULT_FILTERS>>

\* str(n) for a one-digit n
str_int(n) == << <<"0", "1", "2", "3", "4", "5", "6", "7", "8", "9">>[n + 1] >>

\* the sources a template's calls draw from: rnd is the state of the random module's
\* generator (set by random.seed), urandom the bytes os.urandom will hand out, now
\* the clock
Seeds == 0..MaxSeed
Urandom == [1..2 -> 0..1]
Source(rnd, urandom, now) == [rnd |-> rnd, urandom |-> urandom, now |-> now]
\* the generator moves to its next state with every draw
advance_rnd(src) == [src EXCEPT !.rnd = (@ + 1) % (MaxSeed + 1)]

\* faulty variant: the number is drawn from os.urandom instead of the random module
random_int_urandom(src, min, max) ==
    [value |-> min + (Head(src.urandom) % (max - min + 1)), src |-> src]

\* random.randint(min, max): a function of the generator's state
random_int(src, min, max) ==
    [value |-> min + (src.rnd % (max - min + 1)), src |-> advance_rnd(src)]

\* random.choice(list): a function of the generator's state
random_item(src, list) ==
    [value |-> list[1 + (src.rnd % Len(list))], src |-> advance_rnd(src)]

\* uuid.uuid4().hex: uuid4 reads os.urandom(16), the random module is not involved
random_uuid(src) ==
    [value |-> <<"u">> \o str_int(Head(src.urandom)),
     src |-> [src EXCEPT !.urandom = Tail(@)]]

\* date("now", format): dateparser.parse reads the clock
date(src) == [value |-> <<"t">> \o str_int(src.now), src |-> src]

\* template calls: {{ random_int(min, max) }}, {{ random_item(list) }},
\* {{ random_uuid() }}, {{ date("now") }}
CallInt(min, max) == [fn |-> "random_int", min |-> min, max |-> max]
CallItem(list) == [fn |-> "random_item", list |-> list]
CallUuid == [fn |-> "random_uuid"]
CallDate == [fn |-> "date"]

\* template.render(date=date, random_int=random_int, random_item=random_item,
\* random_uuid=random_uuid, ...): literals are copied, calls are evaluated left to right
RECURSIVE template_render(_, _)
template_render(template_str, src) ==
    IF template_str = <<>> THEN <<>>
    ELSE LET tok == Head(template_str) IN
         IF "lit" \in DOMAIN tok
         THEN <<tok.lit>> \o template_render(Tail(template_str), src)
         ELSE LET r == CASE tok.fn = "random_int" ->
                              LET i == random_int(src, tok.min, tok.max)
                              IN [value |-> str_int(i.value), src |-> i.src]
                         [] tok.fn = "random_item" -> random_item(src, tok.list)
                         [] tok.fn = "random_uuid" -> random_uuid(src)
                         [] tok.fn = "date" -> date(src)
              IN r.value \o template_render(Tail(template_str), r.src)

\* Snippet.render for a snippet without variables: (mime type, content)
render_fresh(is_markdown, template_str, src) ==
    LET rendered_snippet == template_render(template_str, src) IN
    IF is_markdown THEN <<"text/html", markdown(rendered_snippet)>>
    ELSE <<"text/plain", rendered_snippet>>

\* snippet files without variables: is_markdown and content
Templates ==
    { [is_markdown |-> FALSE,
       content |-> << Lit("k"), CallInt(1, 2), CallItem(<< <<"p">>, <<"q">> >>) >>],
      [is_markdown |-> TRUE,
       content |-> << CallItem(<< <<"p">>, <<"q">>, <<"r">> >>), CallDate, CallInt(0, 3) >>],
      [is_markdown |-> FALSE, content |-> << CallUuid >>],
      [is_markdown |-> TRUE, content |-> << CallInt(0, 1), CallUuid, Lit("k"), CallUuid >>] }

\* the same snippet rendered twice; random.seed(seed) precedes each render and the
\* clock stands still, os.urandom hands out what it likes
Call_render_twice ==
    /\ \E t \in Templates, seed \in Seeds, now \in 0..1, u1 \in Urandom, u2 \in Urandom :
           call' = [op |-> "render", snippet |-> t, seed |-> seed,
                    first |-> render_fresh(t.is_markdown, t.content, Source(seed, u1, now)),
                    second |-> render_fresh(t.is_markdown, t.content, Source(seed, u2, now))]
    /\ UNCHANGED <<state, snippet, variable, suggestions, ranked, fs, response,
                   effect, typed, session, released, DEFAULT_FILTERS>>

\* str.split(sep): the pieces between the occurrences of the one-character sep
RECURSIVE split(_, _)
split(text, sep) ==
    IF \A k \in 1..Len(text) : text[k] # sep THEN <<text>>
    ELSE LET k == CHOOSE j \in 1..Len(text) :
                     text[j] = sep /\ \A h \in 1..(j - 1) : text[h] # sep
         IN <<SubSeq(text, 1, k - 1)>> \o split(SubSeq(text, k + 1, Len(text)), sep)

\* the characters the %xx escapes of the model stand for
Escapes == { << <<"2", "0">>, " " >>, << <<"4", "1">>, "A" >> }

\* urllib.parse.unquote: every %xx with a known code becomes its character, anything
\* else is copied
RECURSIVE unquote(_)
unquote(text) ==
    IF text = <<>> THEN <<>>
    ELSE IF /\ Head(text) = "%"
            /\ Len(text) >= 3
            /\ \E e \in Escapes : e[1] = SubSeq(text, 2, 3)
         THEN <<(CHOOSE e \in Escapes : e[1] = SubSeq(text, 2, 3))[2]>>
                  \o unquote(SubSeq(text, 4, Len(text)))
         ELSE <<Head(text)>> \o unquote(Tail(text))

\* "x-special/nautilus-clipboard"
Marker ==
    << "x", "-", "s", "p", "e", "c", "i", "a", "l", "/",
       "n", "a", "u", "t", "i", "l", "u", "s", "-", "c",
       "l", "i", "p", "b", "o", "a", "r", "d" >>

\* text.startswith(prefix)
startswith(text, prefix) ==
    Len(text) >= Len(prefix) /\ SubSeq(text, 1, Len(prefix)) = prefix

\* for line in lines: out += unquote(line[7:]) + "\n"
RECURSIVE decode_lines(_)
decode_lines(lines) ==
    IF lines = <<>> THEN <<>>
    ELSE unquote(SubSeq(Head(lines), 8, Len(Head(lines)))) \o <<"\n">>
             \o decode_lines(Tail(lines))

\* convert_clipboard(text)
convert_clipboard(text) ==
    IF startswith(text, Marker)
    THEN LET lines == split(text, "\n")
             out == decode_lines(SubSeq(lines, 3, Len(lines)))
         IN SubSeq(out, 1, Len(out) - 1)
    ELSE text

\* the lines clipboard texts are made of, and the texts: lines joined by "\n"
FileA == <<"f", "i", "l", "e", ":", "/", "/", "/", "a">>
FileB == <<"f", "i", "l", "e", ":", "/", "/", "/", "b", "%", "2", "0", "c", "%", "4">>
ClipboardLines == { <<>>, <<"c", "o", "p", "y">>, FileA, FileB, <<"%", "2", "0">>, Marker }

RECURSIVE join(_, _)
join(lines, sep) ==
    IF lines = <<>> THEN <<>>
    ELSE IF Len(lines) = 1 THEN Head(lines)
    ELSE Head(lines) \o <<sep>> \o join(Tail(lines), sep)

ClipboardTexts ==
    { join(lines, "\n") : lines \in
        { <<l>> : l \in ClipboardLines }
          \cup { <<Marker, <<"c", "o", "p", "y">>, l>> : l \in ClipboardLines }
          \cup { <<Marker, <<"c", "o", "p", "y">>, l, m>> :
                    l \in ClipboardLines, m \in ClipboardLines }
          \cup { <<Marker, <<"c", "o", "p", "y">>, FileA, l, m>> :
                    l \in {<<>>, FileA}, m \in {<<>>, FileB} } }

Call_convert_clipboard ==
    /\ \E text \in ClipboardTexts :
           call' = [op |-> "convert_clipboard", text |-> text,
                    out |-> convert_clipboard(text)]
    /\ UNCHANGED <<state, snippet, variable, suggestions, ranked, fs, response,
                   effect, typed, session, released, DEFAULT_FILTERS>>

\* str.split() without a separator: the maximal runs of non-whitespace characters
RECURSIVE split_whitespace(_)
split_whitespace(text) ==
    LET t == lstrip(text) IN
    IF t = <<>> THEN <<>>
    ELSE LET n == IF \E k \in 1..Len(t) : t[k] = " "
                  THEN (CHOOSE k \in 1..Len(t) :
                            t[k] = " " /\ \A h \in 1..(k - 1) : t[h] # " ") - 1
                  ELSE Len(t)
         IN <<SubSeq(t, 1, n)>> \o split_whitespace(SubSeq(t, n + 1, Len(t)))

\* the loop of camelcase over the words left, text and first being its variables
RECURSIVE camelcase_loop(_, _, _)
camelcase_loop(words, text, first) ==
    IF words = <<>> THEN text
    ELSE LET word == Head(words) IN
         IF ~first THEN camelcase_loop(Tail(words), lower(word), TRUE)
         ELSE IF Len(word) > 1
         THEN camelcase_loop(Tail(words),
                             text \o upper(SubSeq(word, 1, 1)) \o SubSeq(word, 2, Len(word)),
                             first)
         ELSE IF Len(word) = 1
         THEN camelcase_loop(Tail(words), text \o upper(SubSeq(word, 1, 1)), first)
         ELSE camelcase_loop(Tail(words), text, first)

\* camelcase(text) of filters.py
camelcase(text) == camelcase_loop(split_whitespace(text), text, FALSE)

\* pascalcase(text) of filters.py
pascalcase(text) ==
    LET t == camelcase(text) IN
    IF Len(t) > 1 THEN upper(SubSeq(t, 1, 1)) \o SubSeq(t, 2, Len(t))
    ELSE IF Len(t) = 1 THEN upper(SubSeq(t, 1, 1))
    ELSE t

\* the texts of at most MaxTextLen characters over a lower-case letter, an upper-case
\* letter and the blank
Texts == UNION { [1..n -> {"a", "B", " "}] : n \in 0..MaxTextLen }

Call_camelcase ==
    /\ \E text \in Texts :
           call' = [op |-> "camelcase", text |-> text, out |-> camelcase(text)]
    /\ UNCHANGED <<state, snippet, variable, suggestions, ranked, fs, response,
                   effect, typed, session, released, DEFAULT_FILTERS>>

Call_pascalcase ==
    /\ \E text \in Texts :
           call' = [op |-> "pascalcase", text |-> text, out |-> pascalcase(text)]
    /\ UNCHANGED <<state, snippet, variable, suggestions, ranked, fs, response,
                   effect, typed, session, released, DEFAULT_FILTERS>>

\* the files that exist before the extension starts
TargetPath == Home \o <<"f">>
NoFiles == [p \in {} |-> <<>>]

Init ==
    /\ state = "select"
    /\ snippet = UnsetObj
    /\ variable = Unset
    /\ suggestions = <<>>
    /\ ranked = <<>>
    /\ fs \in { NoFiles, [p \in {TargetPath} |-> <<"o">>] }
    /\ response = Action("none", <<>>, <<>>)
    /\ effect = Effect("init", FALSE, NoExc, NoKey, NoKey)
    /\ typed = NoKey
    /\ session = EmptySession
    /\ released = NoneObj
    /\ DEFAULT_FILTERS = BuiltinFilters
    /\ call = NoCall

Next ==
    \/ ItemEnterEvent
    \/ KeywordQueryEvent
    \/ SystemExitEvent

Spec == Init /\ [][Next]_vars

\* the functions called directly, as the doctests of functions.py and filters.py do
LibNext ==
    \/ Call_fuzzyfinder
    \/ Call_get_variable
    \/ Call_render_twice
    \/ Call_convert_clipboard
    \/ Call_camelcase
    \/ Call_pascalcase

LibSpec == Init /\ [][LibNext]_vars

\* snippets of several snippet directories rendered one after another in one process
RenderSpec == Init /\ [][Call__render]_vars

----------------------------------------------------------------------------
(* Properties *)

Started == session.path # NoKey
SessionFile == Library[session.path[1]]
VarIds(path) == [i \in 1..Len(Library[path].vars) |-> Library[path].vars[i].id]
CurrentVar == snippet.variables[IndexOf(snippet, variable)]
DefaultOf(var) == IF var.default # NoKey THEN var.default ELSE <<>>
ErrorItem(msg) == [name |-> msg, on_enter |-> "DoNothingAction"]

\* C1: an item-enter event that reaches the try block (render and delivery) leaves
\* state "select" with extension.snippet and extension.variable None, whether render or
\* delivery succeeded or raised; a failure is returned as a result list of exactly one
\* item that carries the error message, and no fault escapes to the host.
C1_ResetAfterComplete ==
    effect.rendered =>
        /\ state = "select"
        /\ snippet = NoneObj
        /\ variable = NoKey
        /\ response.kind # "fault"
        /\ IF effect.error.exc # ""
           THEN /\ response.kind = "RenderResultListAction"
                /\ response.items = << ErrorItem(effect.error.msg) >>
           ELSE response.kind \in {"HideWindowAction", "CopyToClipboardAction"}

\* C1 witness: the clipboard command failed after a successful render, and the session
\* was reset with the failure reported as one item.
C1_Witness ==
    /\ effect.rendered
    /\ effect.error.exc = "CalledProcessError"
    /\ state = "select"
    /\ snippet = NoneObj
    /\ Len(response.items) = 1

\* the prompts of a session whose submissions all satisfy the premise: after k
\* submissions the first k+1 variables were prompted for, once each and in insertion
\* order, and render is reached by the N-th submission and by no other.
PromptsInOrder ==
    LET ids == VarIds(session.path[1])
        N == Len(ids)
    IN /\ state = "var" =>
              /\ session.nsub < N
              /\ session.prompts = SubSeq(ids, 1, session.nsub + 1)
       /\ effect.rendered =>
              /\ session.nsub = N
              /\ session.prompts = ids

\* C2 as claimed: for a snippet with N unresolved variables, N submissions (a keyword
\* query carrying the text, then an item-enter event without a type) whose text differs
\* from "-" prompt exactly N times, once per variable in insertion order, and the N-th
\* submission reaches render.
C2_Original ==
    (Started /\ session.dashFree) => PromptsInOrder

\* C2 amended: the same, for submissions whose stripped text is neither "-" nor empty.
C2_Amended ==
    (Started /\ session.dashFree /\ session.nonEmpty) => PromptsInOrder

\* C2 witness: snippet a (two variables) was completed by two such submissions after
\* prompting for n and then o.
C2_Witness ==
    /\ effect.rendered
    /\ session.path = <<"a">>
    /\ session.dashFree
    /\ session.nonEmpty
    /\ session.nsub = 2
    /\ session.prompts = << <<"n">>, <<"o">> >>

\* C3: the keyword query typed for the current variable stores the variable's declared
\* default (the empty string when it declares none) when the stripped text is "-", and
\* the stripped text otherwise; after "-" a variable with a non-empty default is resolved
\* and reads as its default.
C3_SubmitStoresValue ==
    (state = "var" /\ typed # NoKey) =>
        LET var == CurrentVar IN
        /\ var.value = IF strip(typed) = <<"-">> THEN DefaultOf(var) ELSE strip(typed)
        /\ typed = <<" ", "-">> => var.value = DefaultOf(var)
        /\ typed = <<"y", " ">> => var.value = <<"y">>
        /\ typed = <<" ">> => var.value = <<>>
        /\ (typed \in {<<"-">>, <<" ", "-">>} /\ Truthy(var.default)) =>
               /\ next_variable(snippet) # variable
               /\ get_variable(snippet, variable).value = var.default

\* C3 witness: " -" was typed for variable o of snippet a, which now holds its default
\* "H " and is resolved.
C3_Witness ==
    /\ state = "var"
    /\ typed = <<" ", "-">>
    /\ variable = <<"o">>
    /\ CurrentVar.value = <<"H", " ">>
    /\ next_variable(snippet) = NoKey

\* C4: a cancel event leaves state "select" with extension.snippet and
\* extension.variable None, so that the session holds no variable value; it renders
\* nothing, writes no file and gives the clipboard nothing.
C4_CancelResets ==
    [][effect'.event = "cancel" =>
          /\ state' = "select"
          /\ snippet' = NoneObj
          /\ variable' = NoKey
          /\ fs' = fs
          /\ ~effect'.rendered
          /\ effect'.clipboard = NoKey
          /\ effect'.file = NoKey
          /\ response' = SetUserQueryAction(<<>>)]_vars

\* C4 witness: a session was cancelled after a submission, while its snippet held a value.
C4_Witness ==
    /\ effect.event = "cancel"
    /\ state = "select"
    /\ session.nsub >= 1
    /\ IsObj(released)
    /\ HasValue(released)

\* C5: every snippet offered for selection has all its variables unset, whatever the
\* snippet the last reset let go of holds, and right after a select event the selected
\* snippet holds no value but the one the first prompt stored from the declared default.
C5_FreshSelection ==
    /\ \A i \in 1..Len(suggestions) :
           \A j \in 1..Len(suggestions[i].variables) :
               suggestions[i].variables[j].value = NoKey
    /\ (state = "var" /\ effect.event = "select") =>
           \A j \in 1..Len(snippet.variables) :
               LET var == snippet.variables[j] IN
               IF var.id = variable
               THEN var.value = strip(DefaultOf(var))
               ELSE var.value = NoKey

\* C5 witness: the file of the previous session, which left a value in its snippet, was
\* selected again.
C5_Witness ==
    /\ state = "var"
    /\ effect.event = "select"
    /\ session.again

C7_OverwriteReplaces ==
    (/\ effect.rendered
     /\ Started
     /\ SessionFile.file_path_template # <<>>
     /\ SessionFile.file_overwrite
     /\ effect.error.exc # "Exception") =>
        /\ effect.file = TargetPath
        /\ TargetPath \in DOMAIN fs
        /\ fs[TargetPath] = markdown(_render(released, SessionFile.content).text)

\* C8 as claimed: when a file-path snippet completes and its file is written, the handler
\* returns HideWindowAction, not an error item, and nothing goes to the clipboard.
C8_FileWrittenSucceeds ==
    effect.file # NoKey =>
        /\ response = HideWindowAction
        /\ effect.clipboard = NoKey

\* C9 as claimed: a keyword query in state "select" returns the result list
\* show_suggestion_items builds from get_snippets, and does not fail.
C9_QueryListsSuggestions ==
    (effect.event = "query" /\ state = "select") =>
        response = RenderResultListAction(show_suggestion_items(suggestions))

Parses(f) == Library[f].parses

\* C10: get_snippets returns the ranked files that parse, each once and in the order of
\* the ranking: a file that fails to parse is left out and nothing else is.
C10_RankedParsed ==
    ranked # <<>> =>
        LET parsed == SelectSeq(ranked, Parses) IN
        /\ Len(suggestions) = Len(parsed)
        /\ \A i \in 1..Len(parsed) : suggestions[i].path = parsed[i]

\* C10 witness: the file that fails to parse was ranked second, and the files ranked
\* first, third and fourth were returned in that order.
C10_Witness ==
    /\ Len(ranked) = 4
    /\ ~Parses(ranked[2])
    /\ Len(suggestions) = 3
    /\ suggestions[1].path = ranked[1]
    /\ suggestions[2].path = ranked[3]
    /\ suggestions[3].path = ranked[4]

----------------------------------------------------------------------------
(* Properties of the functions called directly (LibSpec) *)

\* q is a subsequence of name, compared case-insensitively
RECURSIVE IsSubsequence(_, _)
IsSubsequence(q, name) ==
    IF q = <<>> THEN TRUE
    ELSE IF name = <<>> THEN FALSE
    ELSE IF lower_char(Head(q)) = lower_char(Head(name))
         THEN IsSubsequence(Tail(q), Tail(name))
         ELSE IsSubsequence(q, Tail(name))

Elems(seq) == { seq[k] : k \in 1..Len(seq) }

C12_GetVariable ==
    call.op = "get_variable" =>
        LET k == IndexOf(call.s, call.name)
            var == call.s.variables[k]
            declared == Library[call.s.path].vars[k]
        IN /\ k # 0
           /\ call.out.exc = ""
           /\ var.value # NoKey => call.out.value = var.value
           /\ var.value = NoKey /\ declared.default # NoKey =>
                 call.out.value = declared.default
           /\ var.value = NoKey /\ declared.default = NoKey => call.out.value = <<>>

\* a variable without a value whose declared default is returned
C12_Witness ==
    /\ call.op = "get_variable"
    /\ call.s.variables[IndexOf(call.s, call.name)].value = NoKey
    /\ call.out.value = <<"H", " ">>

Calls(t, fn) == \E k \in 1..Len(t.content) : "fn" \in DOMAIN t.content[k] /\ t.content[k].fn = fn

RECURSIVE DecodedNonEmpty(_)
DecodedNonEmpty(lines) ==
    IF lines = <<>> THEN <<>>
    ELSE IF Head(lines) = <<>> THEN DecodedNonEmpty(Tail(lines))
    ELSE <<unquote(SubSeq(Head(lines), 8, Len(Head(lines))))>>
             \o DecodedNonEmpty(Tail(lines))

\* C14: convert_clipboard on a text that starts with "x-special/nautilus-clipboard"
\* returns the decoded remaining non-empty lines joined by newlines, with no trailing
\* newline and nothing for an empty line; any other text is returned unchanged.
C14_ConvertClipboard ==
    call.op = "convert_clipboard" =>
        LET lines == split(call.text, "\n") IN
        call.out = IF startswith(call.text, Marker)
                   THEN join(DecodedNonEmpty(SubSeq(lines, 3, Len(lines))), "\n")
                   ELSE call.text

\* the words of a text: what lies between its blanks
RECURSIVE Words(_)
Words(text) ==
    IF text = <<>> THEN <<>>
    ELSE IF Head(text) = " " THEN Words(Tail(text))
    ELSE LET rest == Words(Tail(text)) IN
         IF Len(text) = 1 \/ text[2] = " " THEN <<SubSeq(text, 1, 1)>> \o rest
         ELSE <<SubSeq(text, 1, 1) \o Head(rest)>> \o Tail(rest)

UpperFirst(w) == IF w = <<>> THEN w ELSE <<upper_char(w[1])>> \o Tail(w)

\* the first word in lower case, every later one with its first character in upper
\* case, concatenated
RECURSIVE Concat(_, _)
Concat(words, k) ==
    IF k > Len(words) THEN <<>>
    ELSE (IF k = 1 THEN lower(words[k]) ELSE UpperFirst(words[k])) \o Concat(words, k + 1)

\* C19: camelcase returns the concatenation of the whitespace-separated words of the
\* text, the first in lower case and each later one with its first character in upper
\* case and the rest unchanged, also for a text of zero words (the result is then
\* empty) and for one-character words; pascalcase returns that with its first
\* character in upper case.
C19_CamelPascal ==
    /\ call.op = "camelcase" => call.out = Concat(Words(call.text), 1)
    /\ call.op = "pascalcase" => call.out = UpperFirst(Concat(Words(call.text), 1))

----------------------------------------------------------------------------
(* Properties of the event handlers (Spec), continued *)

\* the variables of the session's snippet whose non-empty value the step changes
Overwritten ==
    IF IsObj(snippet) /\ IsObj(snippet')
    THEN { j \in 1..Len(snippet.variables) :
             /\ Truthy(snippet.variables[j].value)
             /\ snippet'.variables[j].value # snippet.variables[j].value }
    ELSE {}

\* C15 as stated: a value that was set to a non-empty string is not cleared or
\* overwritten by any event other than a session reset; keyword-query events during
\* variable collection never make a set value empty again.
C15_Original == [][Overwritten = {}]_vars

\* C15 amended: a non-empty value is changed, short of a session reset, only by a
\* keyword-query event and only if it is the value of the current variable (which
\* every keyword query overwrites with its stripped text, the empty text included);
\* item-enter events and the values of the other variables are never affected.
C15_Amended ==
    [][\A j \in Overwritten :
          /\ effect'.event = "query"
          /\ state = "var"
          /\ snippet.variables[j].id = variable]_vars

\* collecting the second variable of snippet a: the first one keeps its non-empty
\* value while a keyword query has emptied the value the prompt stored for the second
C15_Witness ==
    /\ state = "var"
    /\ IsObj(snippet)
    /\ snippet.path = "a"
    /\ variable = <<"o">>
    /\ Truthy(snippet.variables[1].value)
    /\ effect.event = "query"
    /\ typed = <<" ">>
    /\ snippet.variables[2].value = <<>>

\* the last event was an item-enter event that showed a prompt
Prompted == state = "var" /\ effect.event \in {"select", "submit"}

\* C17: the item-enter event that shows a variable's prompt leaves that variable
\* unresolved (without a non-empty value), also when it declares a default, and an
\* item-enter event that follows a prompt with no keyword-query event in between
\* does not advance past the prompted variable.
C17_PromptKeepsUnresolved ==
    [][/\ Prompted' => ~Truthy(snippet'.variables[IndexOf(snippet', variable')].value)
       /\ Prompted /\ effect'.event = "submit" => state' = "var" /\ variable' = variable]_vars

\* C18: an item-enter event without a type (a submit) received in state "select",
\* before any selection or after a reset, leaves the state "select", invokes no render
\* and raises no fault into the host.
C18_SubmitInSelecting ==
    [][state = "select" /\ effect'.event = "submit" =>
          /\ state' = "select"
          /\ ~effect'.rendered
          /\ response'.kind # "fault"]_vars

\* state "var": snippet and variable are set, variable is one of the snippet's
\* variables and every variable before it has a non-empty value
Collecting ==
    /\ IsObj(snippet)
    /\ variable \notin {NoKey, Unset}
    /\ IndexOf(snippet, variable) # 0
    /\ \A j \in 1..(IndexOf(snippet, variable) - 1) : Truthy(snippet.variables[j].value)

\* C20: between events, in state "var" the session snippet and the current variable
\* are set, the current variable is one of the snippet's variables and every variable
\* before it in insertion order has a non-empty value; a keyword-query event in state
\* "var" changes nothing of the session but the value of the current variable; in
\* state "select" after a reset snippet and variable are both None (before the first
\* reset the two attributes do not exist).
C20_SessionInvariant ==
    [][/\ state' = "var" => Collecting'
       /\ state' = "select" =>
             \/ snippet' = NoneObj /\ variable' = NoKey
             \/ snippet' = UnsetObj /\ variable' = Unset /\ snippet = UnsetObj
       /\ state' = "select" /\ (effect'.event \in {"cancel", "exit"} \/ effect'.rendered) =>
             snippet' = NoneObj /\ variable' = NoKey
       /\ state = "var" /\ effect'.event = "query" =>
             /\ state' = "var"
             /\ variable' = variable
             /\ snippet' = [snippet EXCEPT !.variables[IndexOf(snippet, variable)].value =
                              snippet'.variables[IndexOf(snippet, variable)].value]]_vars

\* collecting the second variable of snippet a after a keyword query "x": the first
\* variable has its value, the second holds the typed text
C20_Witness ==
    /\ state = "var"
    /\ IsObj(snippet)
    /\ snippet.path = "a"
    /\ variable = <<"o">>
    /\ effect.event = "query"
    /\ typed = <<"x">>
    /\ Truthy(snippet.variables[1].value)
    /\ snippet.variables[2].value = <<"x">>

\* the keyword query typed for the current variable resolves nothing: its stripped
\* text is empty, or it is "-" and the variable declares no default
EmptySubmission ==
    /\ state = "var"
    /\ typed # NoKey
    /\ \/ strip(typed) = <<>>
       \/ strip(typed) = <<"-">> /\ CurrentVar.default = NoKey

\* C21: an item-enter event invokes render (or render_to_file_path) only on a snippet
\* whose declared variables all have a non-empty value; the item-enter event that
\* submits an empty or whitespace-only text, or "-" for a variable without a default,
\* invokes no render and prompts for the same variable again.
C21_RenderOnlyResolved ==
    [][/\ effect'.rendered /\ effect'.event \in {"select", "submit"} =>
             /\ IsObj(released')
             /\ \A j \in 1..Len(released'.variables) : Truthy(released'.variables[j].value)
       /\ EmptySubmission /\ effect'.event = "submit" =>
             /\ ~effect'.rendered
             /\ state' = "var"
             /\ variable' = variable]_vars

\* snippet a was rendered by its third submission: the first one left n unresolved, so
\* n was prompted for twice before o
C21_Witness ==
    /\ effect.rendered
    /\ session.path = <<"a">>
    /\ session.nsub = 3
    /\ session.prompts = << <<"n">>, <<"n">>, <<"o">> >>
    /\ IsObj(released)
    /\ \A j \in 1..Len(released.variables) : Truthy(released.variables[j].value)

----------------------------------------------------------------------------
(* Properties of successive renders (RenderSpec) *)

\* the filters of the rendered snippet's own root directory
OwnFilters ==
    IF call.root \in DOMAIN FilterFiles THEN import_filters(call.root) ELSE <<>>

\* C16: the filter table a render uses holds the built-in filters plus the filters of
\* the snippet's own root directory and nothing else, so a snippet whose root has no
\* filters.py sees no filter an earlier render loaded from another root (a template
\* applying one fails), and the process-wide table stays what it was at import.
C16_OwnFiltersOnly ==
    call.op = "_render" =>
        /\ DEFAULT_FILTERS = BuiltinFilters
        /\ call.filters = merge(BuiltinFilters, OwnFilters)
        /\ call.exc = "" <=> call.uses \in DOMAIN BuiltinFilters \cup DOMAIN OwnFilters

====
